---- MODULE Spec2Model ----
(***************************************************************************)
(* Model of NovelScraper (src/NovelScraper.py): the frontier file          *)
(* Links.txt, the batch directories {initial}-{end}, the packaged epub     *)
(* files, one scraper instance with the positions of create_epub,          *)
(* scrape_worker and scrape_one_webpage, and the text cleaner.             *)
(*                                                                         *)
(* Strings that hold URLs are records [k, pad]: k is the page the text     *)
(* names (0: no visible text at all, the empty or blank string), pad says  *)
(* whether whitespace surrounds the text.  str.strip() clears pad.         *)
(* Markup handed to the cleaner is a sequence of tokens, "nl" being the    *)
(* newline character.                                                      *)
(***************************************************************************)
EXTENDS Integers, Sequences, FiniteSets, TLC

\* ------------------------------------------------------------------ bounds
NPages == 2                 \* pages of the source site, chained 1 -> 2 -> ... -> NPages
MaxBatch == 2               \* largest batch_size a run is started with
MaxRetryBound == 2          \* largest MAX_RETRY configured
MaxAttempts == 4            \* failed content attempts followed within one fetcher call
MaxDirs == 2                \* batch directories created over all runs
MaxLen == 4                 \* tokens of a fragment handed to the cleaner
MaxLinkLen == 4             \* tokens of an href handed to the link resolver

\* ------------------------------------------------------------------ values
None == [k |-> -1, pad |-> FALSE]
NoneInt == -1
Url(n) == [k |-> n, pad |-> FALSE]
\* What the operator types at "Enter the First URL": nothing, the first page,
\* the last page followed by a blank.
InputStrings == {[k |-> 0, pad |-> FALSE], Url(1), [k |-> NPages, pad |-> TRUE]}
\* What the operator types at "Enter the URL for chapter ...".
ReplacementUrls == {Url(1)}
Last(s) == s[Len(s)]

strip(s) == [k |-> s.k, pad |-> FALSE]

\* ------------------------------------------------------------------ cleaner
Tokens == {"t", "nl", "wm", "fw", "ex", "wmL", "wmR", "p"}

RECURSIVE split(_)
split(data) ==
    IF \A j \in 1..Len(data) : data[j] # "nl" THEN <<data>>
    ELSE LET n == CHOOSE j \in 1..Len(data) :
                      data[j] = "nl" /\ \A m \in 1..(j - 1) : data[m] # "nl"
         IN  <<SubSeq(data, 1, n - 1)>> \o split(SubSeq(data, n + 1, Len(data)))

RECURSIVE join(_)
join(lines) ==
    IF lines = <<>> THEN <<>>
    ELSE IF Len(lines) = 1 THEN lines[1]
    ELSE lines[1] \o <<"nl">> \o join(Tail(lines))

normalize(data) == [j \in 1..Len(data) |-> IF data[j] = "fw" THEN "wm" ELSE data[j]]

ContainsWatermark(line) ==
    \E j \in 1..Len(line) :
        \/ line[j] = "wm"
        \/ j < Len(line) /\ line[j] = "wmL" /\ line[j + 1] = "wmR"

remove_pattern(data) ==
    join(SelectSeq(split(data), LAMBDA line : ~ContainsWatermark(line)))

remove_exclusions(data) == SelectSeq(data, LAMBDA tk : tk # "ex")

remove_first_p_tag(data) ==
    IF \E j \in 1..Len(data) : data[j] = "p"
    THEN LET n == CHOOSE j \in 1..Len(data) :
                      data[j] = "p" /\ \A m \in 1..(j - 1) : data[m] # "p"
         IN  SubSeq(data, 1, n - 1) \o SubSeq(data, n + 1, Len(data))
    ELSE data

remove_last_p_tag(data) ==
    IF \E j \in 1..Len(data) : data[j] = "p"
    THEN LET n == CHOOSE j \in 1..Len(data) :
                      data[j] = "p" /\ \A m \in (j + 1)..Len(data) : data[m] # "p"
         IN  SubSeq(data, 1, n - 1) \o SubSeq(data, n + 1, Len(data))
    ELSE data

clean_text(data) ==
    remove_last_p_tag(remove_exclusions(remove_pattern(normalize(data))))

\* ------------------------------------------------------------------ the site
\* Link texts are sequences of tokens: "s" a scheme, "h" the site's host, "/"
\* a path separator, "c" a path character.  DOMAIN_NAME is scheme and host;
\* page n of the site lives at the path "/" followed by n characters.
LinkTokens == {"s", "h", "/", "c"}
DOMAIN_NAME == <<"s", "h">>
NoLink == <<"none">>
Href(n, absolute) ==
    (IF absolute THEN DOMAIN_NAME ELSE <<>>) \o <<"/">> \o [j \in 1..n |-> "c"]

\* Python's `sub in text` on strings.
Contains(sub, text) ==
    \E j \in 0..(Len(text) - Len(sub)) : SubSeq(text, j + 1, j + Len(sub)) = sub

\* The URL string a resolved link text is, in the [k, pad] form of the
\* crawler's URL variables: the page it names, 0 when the site has none.
UrlOfLink(link) ==
    IF link = NoLink THEN None
    ELSE IF \E n \in 1..NPages : link = Href(n, TRUE)
         THEN Url(CHOOSE n \in 1..NPages : link = Href(n, TRUE))
         ELSE Url(0)

ErrorPage == [src |-> 0, href |-> NoLink, has_div |-> FALSE]
PageContent(n) == <<"t", "nl", "p", "fw">>

\* What a completed GET of web_url can deliver: the page the URL names, with
\* or without its content block, or, for a padded URL, the site's error page.
Responses(url) ==
    IF url.k < 1 THEN {}
    ELSE {[src |-> url.k,
           href |-> IF url.k < NPages
                    THEN Href(url.k + 1, url.k % 2 = 1)
                    ELSE NoLink,
           has_div |-> d] : d \in BOOLEAN}
         \cup (IF url.pad THEN {ErrorPage} ELSE {})

find_next_chapter_link(page) ==
    IF page.href # NoLink
    THEN IF Contains(DOMAIN_NAME, page.href)
         THEN page.href
         ELSE DOMAIN_NAME \o page.href
    ELSE NoLink

\* ------------------------------------------------------------------ state
VARIABLES
    links_file,             \* Links.txt: [exists, lines]
    dirs,                   \* directories that exist, as paths below the novel directory
    epubs,                  \* packaged files: [path, batch_size, chapters]
    max_retries,            \* MAX_RETRY of the environment
    pc,                     \* position of the process
    initial_url, batch_size, output_file_path, chapters,
    current_url, last_valid_url, initial_chapter_number, i,
    web_url, retry_no, user_choice,
    failed_attempts, decisions,     \* content attempts that failed, get_choice calls, in this call
    transport_failed,               \* the last session.get of this call raised
    fragment, clean_out,
    link_in, link_out               \* an href and what find_next_chapter_link makes of it

disk == <<links_file, dirs, epubs>>
instance == <<initial_url, batch_size, output_file_path, chapters>>
worker == <<current_url, last_valid_url, initial_chapter_number, i>>
fetcher == <<web_url, retry_no, user_choice, failed_attempts, decisions, transport_failed>>
cleaner == <<fragment, clean_out>>
linker == <<link_in, link_out>>
vars == <<disk, max_retries, pc, instance, worker, fetcher, cleaner, linker>>

\* ------------------------------------------------------------------ frontier store
write_to_file_truncating(file, value) ==
    IF value = None THEN file
    ELSE IF file.exists /\ file.lines # <<>> /\ strip(Last(file.lines)) = value THEN file
    ELSE [exists |-> TRUE, lines |-> <<value>>]

write_to_file(file, value) ==
    IF value = None THEN file
    ELSE IF file.exists /\ file.lines # <<>> /\ strip(Last(file.lines)) = value THEN file
    ELSE [exists |-> TRUE, lines |-> Append(file.lines, value)]

get_url(file, chapter_url) ==
    IF file.exists
    THEN LET lines == SelectSeq(file.lines, LAMBDA line : strip(line).k # 0)
         IN  [url |-> IF lines # <<>> THEN strip(Last(lines)) ELSE None, file |-> file]
    ELSE [url |-> chapter_url, file |-> write_to_file(file, chapter_url)]

get_last_chapter_scraped(ds, path) ==
    IF path \notin ds THEN NoneInt
    ELSE LET ends == {Last(d)[2] : d \in {e \in ds : Len(e) = Len(path) + 1
                                                   /\ SubSeq(e, 1, Len(path)) = path}}
         IN  IF ends = {} THEN NoneInt
             ELSE CHOOSE m \in ends : \A n \in ends : n <= m

Unresolved == <<"unresolved">>

\* ------------------------------------------------------------------ initial state
NoInstance ==
    /\ pc = "none"
    /\ initial_url = None /\ batch_size = 0 /\ output_file_path = <<>> /\ chapters = <<>>
    /\ current_url = None /\ last_valid_url = None
    /\ initial_chapter_number = 0 /\ i = 0
    /\ web_url = None /\ retry_no = 0 /\ user_choice = "none"
    /\ failed_attempts = 0 /\ decisions = 0 /\ transport_failed = FALSE

Init ==
    /\ links_file = [exists |-> FALSE, lines |-> <<>>]
    /\ dirs = {}
    /\ epubs = {}
    /\ max_retries \in {1, MaxRetryBound}
    /\ NoInstance
    /\ fragment = <<>> /\ clean_out = <<>>
    /\ link_in = NoLink /\ link_out = Unresolved

\* ------------------------------------------------------------------ __init__
Construct_checking_late(chapter_url, size, env_complete) ==
    /\ pc = "none"
    /\ LET r == get_url(links_file, chapter_url)
       IN  /\ initial_url' = r.url
           /\ links_file' = r.file
    /\ batch_size' = size
    /\ output_file_path' = <<>>
    /\ chapters' = <<>>
    /\ dirs' = dirs \cup {<<>>}
    /\ pc' = IF env_complete THEN "ready" ELSE "config_error"
    /\ UNCHANGED <<epubs, max_retries, worker, fetcher, cleaner, linker>>

\* env_complete: every name of REQUIRED_ENV_VARS is set (lines 74-77).
Construct(chapter_url, size, env_complete) ==
    /\ pc = "none"
    /\ IF ~env_complete
       THEN /\ pc' = "config_error"
            /\ UNCHANGED <<links_file, dirs, instance>>
       ELSE /\ LET r == get_url(links_file, chapter_url)
               IN  /\ initial_url' = r.url
                   /\ links_file' = r.file
            /\ batch_size' = size
            /\ output_file_path' = <<>>
            /\ chapters' = <<>>
            /\ dirs' = dirs \cup {<<>>}
            /\ pc' = "ready"
    /\ UNCHANGED <<epubs, max_retries, worker, fetcher, cleaner, linker>>

\* ------------------------------------------------------------------ scrape_worker
CreateEpubStart ==
    /\ pc = "ready"
    /\ Cardinality(dirs \ {<<>>}) < MaxDirs
    /\ Len(links_file.lines) <= MaxDirs
    /\ current_url' = initial_url
    /\ last_valid_url' = initial_url
    /\ LET last == get_last_chapter_scraped(dirs, output_file_path)
       IN  initial_chapter_number' = IF last # NoneInt THEN last + 1 ELSE 1
    /\ i' = initial_chapter_number'
    /\ pc' = "loop"
    /\ UNCHANGED <<disk, max_retries, instance, fetcher, cleaner, linker>>

Return_overwriting(has_more_pages, next_url) ==
    /\ current_url' = next_url
    /\ last_valid_url' = next_url
    /\ IF has_more_pages /\ i + 1 < initial_chapter_number + batch_size
       THEN pc' = "loop" /\ i' = i + 1
       ELSE pc' = "exit" /\ i' = i
    /\ UNCHANGED initial_chapter_number

\* Lines 290-294 once scrape_one_webpage has returned (has_more_pages, next_url).
Return(has_more_pages, next_url) ==
    /\ current_url' = next_url
    /\ last_valid_url' = IF next_url # None THEN next_url ELSE last_valid_url
    /\ IF has_more_pages /\ i + 1 < initial_chapter_number + batch_size
       THEN pc' = "loop" /\ i' = i + 1
       ELSE pc' = "exit" /\ i' = i
    /\ UNCHANGED initial_chapter_number

ScrapeEnter_from_start ==
    /\ pc = "loop"
    /\ web_url' = initial_url
    /\ retry_no' = 1
    /\ user_choice' = "none"
    /\ failed_attempts' = 0 /\ decisions' = 0 /\ transport_failed' = FALSE
    /\ IF current_url = None
       THEN Return(FALSE, None)
       ELSE pc' = "get" /\ UNCHANGED worker
    /\ UNCHANGED <<disk, max_retries, instance, cleaner, linker>>

ScrapeEnter_continuing ==
    /\ pc = "loop"
    /\ web_url' = current_url
    /\ retry_no' = 1
    /\ user_choice' = "none"
    /\ failed_attempts' = 0 /\ decisions' = 0 /\ transport_failed' = FALSE
    /\ IF current_url = None
       THEN Return(TRUE, None)
       ELSE pc' = "get" /\ UNCHANGED worker
    /\ UNCHANGED <<disk, max_retries, instance, cleaner, linker>>

\* Line 290 calls scrape_one_webpage(current_url, i): lines 222-224 return
\* (False, None) for a null URL, otherwise the GET loop of line 226 is entered.
ScrapeEnter ==
    /\ pc = "loop"
    /\ web_url' = current_url
    /\ retry_no' = 1
    /\ user_choice' = "none"
    /\ failed_attempts' = 0 /\ decisions' = 0 /\ transport_failed' = FALSE
    /\ IF current_url = None
       THEN Return(FALSE, None)
       ELSE pc' = "get" /\ UNCHANGED worker
    /\ UNCHANGED <<disk, max_retries, instance, cleaner, linker>>

\* ------------------------------------------------------------------ scrape_one_webpage
GetException_counting ==
    /\ pc = "get"
    /\ transport_failed' = TRUE
    /\ retry_no' = retry_no + 1
    /\ UNCHANGED <<disk, max_retries, pc, instance, worker, cleaner, linker,
                   web_url, user_choice, failed_attempts, decisions>>

\* Lines 229-233: session.get raised; `continue` starts the loop body again.
GetException ==
    /\ pc = "get"
    /\ transport_failed' = TRUE
    /\ UNCHANGED <<disk, max_retries, pc, instance, worker, cleaner, linker,
                   web_url, retry_no, user_choice, failed_attempts, decisions>>

Chapter(webpage_no, page) ==
    [index |-> webpage_no, title |-> <<"Chapter", webpage_no>>, src |-> page.src,
     content |-> <<"h2", webpage_no>> \o clean_text(PageContent(page.src))]

GetContentFound ==
    /\ pc = "get"
    /\ \E page \in Responses(web_url) :
          /\ page.has_div
          /\ chapters' = Append(chapters, Chapter(i, page))
          /\ Return(TRUE, UrlOfLink(find_next_chapter_link(page)))
    /\ UNCHANGED <<disk, max_retries, initial_url, batch_size, output_file_path,
                   fetcher, cleaner, linker>>

GetContentMissing ==
    /\ pc = "get"
    /\ failed_attempts < MaxAttempts
    /\ \E page \in Responses(web_url) : ~page.has_div
    /\ retry_no % max_retries # 0
    /\ retry_no' = retry_no + 1
    /\ failed_attempts' = failed_attempts + 1
    /\ transport_failed' = FALSE
    /\ UNCHANGED <<disk, max_retries, pc, instance, worker, cleaner, linker,
                   web_url, user_choice, decisions>>

GetChoice_resetting(choice, new_url) ==
    /\ pc = "get"
    /\ failed_attempts < MaxAttempts
    /\ \E page \in Responses(web_url) : ~page.has_div
    /\ retry_no % max_retries = 0
    /\ user_choice' = choice
    /\ decisions' = decisions + 1
    /\ failed_attempts' = failed_attempts + 1
    /\ IF choice = "n"
       THEN pc' = "raised" /\ UNCHANGED <<web_url, retry_no>>
       ELSE /\ pc' = pc
            /\ web_url' = IF choice = "c" THEN new_url ELSE web_url
            /\ retry_no' = IF choice = "c" THEN 0 ELSE retry_no + 1
    /\ transport_failed' = FALSE
    /\ UNCHANGED <<disk, max_retries, instance, worker, cleaner, linker>>

\* Lines 257-271 with get_choice: "n" reads the local `chapter`, which no path
\* to line 260 has assigned, so the call raises instead of returning.
GetChoice(choice, new_url) ==
    /\ pc = "get"
    /\ failed_attempts < MaxAttempts
    /\ \E page \in Responses(web_url) : ~page.has_div
    /\ retry_no % max_retries = 0
    /\ user_choice' = choice
    /\ decisions' = decisions + 1
    /\ failed_attempts' = failed_attempts + 1
    /\ IF choice = "n"
       THEN pc' = "raised" /\ UNCHANGED <<web_url, retry_no>>
       ELSE /\ pc' = pc
            /\ web_url' = IF choice = "c" THEN new_url ELSE web_url
            /\ retry_no' = retry_no + 1
    /\ transport_failed' = FALSE
    /\ UNCHANGED <<disk, max_retries, instance, worker, cleaner, linker>>

\* ------------------------------------------------------------------ batch exit
WorkerExit ==
    /\ pc = "exit"
    /\ links_file' = write_to_file(links_file, last_valid_url)
    /\ dirs' = IF links_file.exists THEN dirs ELSE dirs \cup {<<>>}
    /\ output_file_path' = Append(output_file_path, <<initial_chapter_number, i>>)
    /\ pc' = "makedirs"
    /\ UNCHANGED <<epubs, max_retries, initial_url, batch_size, chapters,
                   worker, fetcher, cleaner, linker>>

MakeDirs ==
    /\ pc = "makedirs"
    /\ dirs' = dirs \cup {output_file_path}
    /\ pc' = "write_epub"
    /\ UNCHANGED <<links_file, epubs, max_retries, instance, worker, fetcher, cleaner, linker>>

WriteEpub ==
    /\ pc = "write_epub"
    /\ epubs' = {e \in epubs : ~(e.path = output_file_path /\ e.batch_size = batch_size)}
                \cup {[path |-> output_file_path, batch_size |-> batch_size,
                       chapters |-> chapters]}
    /\ pc' = "ready"
    /\ UNCHANGED <<links_file, dirs, max_retries, instance, worker, fetcher, cleaner, linker>>

\* The process ends: after an uncaught exception, after create_epub returned,
\* or killed at any point in between.  Only the disk survives.
Terminate ==
    /\ pc # "none"
    /\ pc' = "none"
    /\ initial_url' = None /\ batch_size' = 0 /\ output_file_path' = <<>> /\ chapters' = <<>>
    /\ current_url' = None /\ last_valid_url' = None
    /\ initial_chapter_number' = 0 /\ i' = 0
    /\ web_url' = None /\ retry_no' = 0 /\ user_choice' = "none"
    /\ failed_attempts' = 0 /\ decisions' = 0 /\ transport_failed' = FALSE
    /\ UNCHANGED <<disk, max_retries, cleaner, linker>>

\* ------------------------------------------------------------------ cleaner runs
Fragments == UNION {[1..n -> Tokens] : n \in 0..MaxLen}

InitClean ==
    /\ links_file = [exists |-> FALSE, lines |-> <<>>]
    /\ dirs = {}
    /\ epubs = {}
    /\ max_retries = 1
    /\ NoInstance
    /\ fragment \in Fragments
    /\ clean_out = <<>>
    /\ link_in = NoLink /\ link_out = Unresolved

\* clean_text applied to the fragment, then to its own output.
CleanPass ==
    /\ Len(clean_out) < 2
    /\ clean_out' = Append(clean_out,
                           clean_text(IF clean_out = <<>> THEN fragment ELSE Last(clean_out)))
    /\ UNCHANGED <<disk, max_retries, pc, instance, worker, fetcher, fragment, linker>>

NextClean == CleanPass

SpecClean == InitClean /\ [][NextClean]_vars

\* ------------------------------------------------------------------ link resolver runs
Hrefs == UNION {[1..n -> LinkTokens] : n \in 0..MaxLinkLen} \cup {NoLink}

InitLink ==
    /\ links_file = [exists |-> FALSE, lines |-> <<>>]
    /\ dirs = {}
    /\ epubs = {}
    /\ max_retries = 1
    /\ NoInstance
    /\ fragment = <<>> /\ clean_out = <<>>
    /\ link_in \in Hrefs
    /\ link_out = Unresolved

\* find_next_chapter_link applied to a page whose next button carries link_in.
FindNext ==
    /\ link_out = Unresolved
    /\ link_out' = find_next_chapter_link([src |-> 0, href |-> link_in, has_div |-> TRUE])
    /\ UNCHANGED <<disk, max_retries, pc, instance, worker, fetcher, cleaner, link_in>>

NextLink == FindNext

SpecLink == InitLink /\ [][NextLink]_vars

\* ------------------------------------------------------------------ specifications
Next ==
    \/ \E chapter_url \in InputStrings, size \in 1..MaxBatch, env_complete \in BOOLEAN :
           Construct(chapter_url, size, env_complete)
    \/ CreateEpubStart
    \/ ScrapeEnter
    \/ GetException
    \/ GetContentFound
    \/ GetContentMissing
    \/ \E choice \in {"y", "c", "n"}, new_url \in ReplacementUrls : GetChoice(choice, new_url)
    \/ WorkerExit
    \/ MakeDirs
    \/ WriteEpub
    \/ Terminate

Spec == Init /\ [][Next]_vars

\* Runs in which every instance is fresh, runs one batch and ends only once
\* create_epub has returned or raised, the crawl is seeded with the first page
\* and the operator never redirects it.
NextResume ==
    \/ \E size \in 1..MaxBatch : Construct(Url(1), size, TRUE)
    \/ output_file_path = <<>> /\ CreateEpubStart
    \/ ScrapeEnter
    \/ GetException
    \/ GetContentFound
    \/ GetContentMissing
    \/ \E choice \in {"y", "n"} : GetChoice(choice, None)
    \/ WorkerExit
    \/ MakeDirs
    \/ WriteEpub
    \/ (pc = "raised" \/ (pc = "ready" /\ output_file_path # <<>>)) /\ Terminate

SpecResume == Init /\ [][NextResume]_vars

\* ================================================================== claims
lines == links_file.lines
BatchDirs == {d \in dirs : Len(d) = 1}
Packaged(e) == {e.chapters[j] : j \in 1..Len(e.chapters)}
IsPrefix(s, t) == Len(s) <= Len(t) /\ SubSeq(t, 1, Len(s)) = s

\* C1: over batches run to completion by fresh instances, no source page is
\* packaged as a unit by two batches, and the packaged unit indices are
\* 1, 2, 3, ... without a gap.
C1_NoSkipNoDuplicate ==
    LET units == UNION {Packaged(e) : e \in epubs}
    IN  /\ \A e1, e2 \in epubs :
              e1 # e2 => \A u1 \in Packaged(e1), u2 \in Packaged(e2) : u1.src # u2.src
        /\ {u.index : u \in units} = 1..Cardinality(units)

\* C2: the frontier file never holds more checkpoint advances than there are
\* packaged batches: every line after the seed is written only once the batch
\* it accounts for is on disk.
C2_CheckpointAfterRecord == Len(lines) <= Cardinality(epubs) + 1

\* C3: after the decision "n" the fetcher has returned, and the unit of that
\* index, with the body "Chapter not available", is in the accumulated sequence.
C3_SkipYieldsPlaceholder ==
    user_choice = "n" =>
        /\ pc # "raised"
        /\ \E j \in 1..Len(chapters) :
              chapters[j].content = <<"h2", chapters[j].index, "Chapter not available">>

\* C4: when the fetcher fails at index i, no batch directory ending at i or
\* later is created and the units harvested before i are packaged.
C4_AbortKeepsPriorUnits ==
    pc = "raised" =>
        /\ \A d \in dirs : d # <<>> => Last(d)[2] < i
        /\ chapters # <<>> => \E e \in epubs : e.chapters = chapters

\* C5: inside one fetcher call, the number of escalation decisions asked so
\* far is floor(failed content attempts / MAX_RETRY).
C5_OneDecisionPerRAttempts ==
    pc \in {"get", "raised"} => decisions = failed_attempts \div max_retries

C5_Witness ==
    /\ pc = "get" /\ max_retries > 1
    /\ decisions = 2 /\ failed_attempts = 2 * max_retries
    /\ user_choice = "y" /\ web_url # current_url

\* C6: once a batch that appended units has left the loop, the range naming
\* its directory starts at the start index, ends at the index of the last
\* unit appended, and spans as many indices as there are accumulated units.
C6_RangeIsActualRange ==
    (pc = "makedirs" /\ Len(output_file_path) = 1 /\ chapters # <<>>) =>
        LET range == Last(output_file_path)
        IN  /\ range[1] = initial_chapter_number
            /\ range[2] = Last(chapters).index
            /\ range[2] - range[1] + 1 = Len(chapters)

\* C7: a batch starts at 1 + the largest end of the batch directories under
\* the novel's directory, and at 1 when there is none.
C7_StartIndexIsMaxEndPlusOne ==
    pc \in {"loop", "get", "exit"} =>
        initial_chapter_number =
            IF BatchDirs = {} THEN 1
            ELSE 1 + CHOOSE m \in {d[1][2] : d \in BatchDirs} :
                         \A d \in BatchDirs : d[1][2] <= m

\* C8: no two adjacent lines of the frontier file are equal.
C8_NoAdjacentDuplicate ==
    \A j \in 1..(Len(lines) - 1) : lines[j] # lines[j + 1]

\* C9: every step leaves the old lines of the frontier file as a prefix of
\* the new ones, adds at most one line, never removes the file, and the
\* append of a null URL at batch exit changes nothing.
C9_AppendOnly ==
    [][/\ IsPrefix(lines, links_file'.lines)
       /\ Len(links_file'.lines) <= Len(lines) + 1
       /\ links_file.exists => links_file'.exists
       /\ (pc = "exit" /\ last_valid_url = None) => links_file' = links_file]_vars

C9_Witness ==
    /\ pc = "makedirs"
    /\ Len(lines) >= 2
    /\ Last(lines) = last_valid_url
    /\ last_valid_url # initial_url

\* C10: a fragment whose first cleaning leaves no watermark line and no
\* excluded literal is unchanged by a second cleaning.
Forbidden(data) ==
    \/ \E j \in 1..Len(data) : data[j] \in {"ex", "fw"}
    \/ \E j \in 1..Len(split(data)) : ContainsWatermark(split(data)[j])

RECURSIVE WithoutLastP(_)
WithoutLastP(data) ==
    IF data = <<>> THEN <<>>
    ELSE IF Last(data) = "p" THEN SubSeq(data, 1, Len(data) - 1)
    ELSE Append(WithoutLastP(SubSeq(data, 1, Len(data) - 1)), Last(data))

C11_LinkResolution ==
    link_out # Unresolved =>
        link_out = IF link_in = NoLink THEN NoLink
                   ELSE IF IsPrefix(DOMAIN_NAME, link_in) THEN link_in
                   ELSE DOMAIN_NAME \o link_in

\* C12: a construction that ends with the missing-configuration error has
\* changed nothing: not the frontier file, not the directories, not the
\* packaged files, and no field of the instance or of a crawl is set.
C12_ConfigErrorTouchesNothing ==
    [][pc' = "config_error" => UNCHANGED <<disk, instance, worker, fetcher>>]_vars

C12_Witness == pc = "config_error" /\ ~links_file.exists /\ dirs = {}

\* C13: a GET that fails at transport level keeps the fetcher inside its call,
\* and leaves the retry counter, the URL being fetched, the decisions asked,
\* the accumulated units, the frontier file and the crawler's variables as
\* they were, so the next GET is of the same URL with the same counter.
C13_TransportFailureChangesNothing ==
    [][/\ (pc = "get" /\ ~transport_failed /\ transport_failed') => pc' = "get"
       /\ (pc = "get" /\ pc' = "get" /\ transport_failed') =>
              UNCHANGED <<retry_no, web_url, user_choice, decisions, failed_attempts,
                          chapters, links_file, worker>>]_vars

C13_Witness ==
    /\ pc = "get" /\ transport_failed
    /\ retry_no >= 2 /\ decisions >= 1
    /\ chapters # <<>>

\* C14: a fetcher call with a null URL ends the batch's loop at once: no GET
\* is issued and no unit is created; and once the loop of a batch has been
\* left, that batch never invokes the fetcher again nor extends the
\* accumulated sequence.
C14_NullUrlStopsBatch ==
    [][/\ (pc = "loop" /\ current_url = None) =>
              /\ pc' \in {"exit", "none"}
              /\ pc' = "exit" => (chapters' = chapters /\ current_url' = None /\ i' = i)
       /\ pc \in {"exit", "makedirs", "write_epub"} =>
              /\ pc' \notin {"loop", "get"}
              /\ pc' # "none" => chapters' = chapters]_vars

C14_Witness ==
    /\ pc = "exit" /\ web_url = None /\ current_url = None
    /\ chapters # <<>> /\ i = Last(chapters).index + 1
    /\ i < initial_chapter_number + batch_size

\* The next link the site's page src carries, as a URL.
NextLinkOf(src) == IF src >= 1 /\ src < NPages THEN Url(src + 1) ELSE None

\* C15: the last-known-good URL of a batch starts as the batch's start URL,
\* becomes the next link of a fetched page when that link is not null and is
\* kept when it is null; the frontier file is written at the batch's exit
\* only, once, and its last line is then the last-known-good URL.
C15_CheckpointIsLastKnownGood ==
    [][/\ (pc = "ready" /\ pc' = "loop") => last_valid_url' = initial_url
       /\ (pc = "get" /\ pc' \in {"loop", "exit"}) =>
              last_valid_url' = IF NextLinkOf(Last(chapters').src) # None
                                THEN NextLinkOf(Last(chapters').src)
                                ELSE last_valid_url
       /\ (pc = "loop" /\ pc' = "exit") => last_valid_url' = last_valid_url
       /\ pc \in {"loop", "get", "makedirs", "write_epub"} => links_file' = links_file
       /\ (pc = "exit" /\ pc' = "makedirs") =>
              /\ Len(links_file'.lines) <= Len(lines) + 1
              /\ last_valid_url = None => links_file' = links_file
              /\ last_valid_url # None =>
                     /\ links_file'.exists
                     /\ strip(Last(links_file'.lines)) = strip(last_valid_url)]_vars

C15_Witness ==
    /\ pc = "makedirs" /\ current_url = None
    /\ Len(chapters) >= 2
    /\ last_valid_url = NextLinkOf(chapters[1].src)
    /\ Len(lines) >= 2 /\ Last(lines) = last_valid_url

\* C16: while a batch runs and until it is packaged, the accumulated sequence
\* holds at most batch_size units, the j-th of them has the index
\* start index + j - 1, and each is titled "Chapter {index}".
C16_UnitsAreTheBatchRange ==
    pc \in {"loop", "get", "exit", "makedirs", "write_epub"} =>
        /\ Len(chapters) <= batch_size
        /\ \A j \in 1..Len(chapters) :
               /\ chapters[j].index = initial_chapter_number + j - 1
               /\ chapters[j].title = <<"Chapter", chapters[j].index>>

\* C17: a construction that loaded the frontier holds a non-null start URL,
\* the frontier file exists, and the start URL is the file's last line.
C17_LoadYieldsLastLine ==
    (pc = "ready" /\ output_file_path = <<>>) =>
        /\ initial_url # None
        /\ links_file.exists /\ lines # <<>>
        /\ strip(initial_url) = strip(Last(lines))

\* C18: the fetcher call for the next index starts only when the call for
\* index i has appended unit i, and is given the next link of the page that
\* unit was made from; inside one call the URL requested changes only in a
\* step in which the operator chose "c" and supplied a URL.
C18_SequentialAlongNextLinks ==
    [][/\ (pc = "get" /\ pc' = "loop") =>
              /\ i' = i + 1
              /\ Len(chapters') = Len(chapters) + 1
              /\ Last(chapters').index = i
              /\ current_url' = NextLinkOf(Last(chapters').src)
       /\ (pc = "loop" /\ pc' = "get") =>
              /\ web_url' = current_url
              /\ i > initial_chapter_number =>
                     (chapters # <<>> /\ Last(chapters).index = i - 1)
       /\ (pc = "get" /\ pc' = "get" /\ web_url' # web_url) =>
              (user_choice' = "c" /\ decisions' = decisions + 1)]_vars

C18_Witness ==
    /\ pc = "get" /\ i > initial_chapter_number
    /\ chapters # <<>> /\ Last(chapters).index = i - 1
    /\ current_url = NextLinkOf(Last(chapters).src)
    /\ user_choice = "c" /\ web_url # current_url

\* C19: a batch started on an instance that has already run a batch starts at
\* the index after the end of that batch's range and at the URL that batch
\* left as the checkpoint, and the accumulated sequence holds no unit of an
\* earlier batch.
C19_SecondBatchContinues ==
    (pc \in {"loop", "get", "exit"} /\ output_file_path # <<>>) =>
        /\ initial_chapter_number = Last(output_file_path)[2] + 1
        /\ (pc = "loop" /\ i = initial_chapter_number) =>
               strip(current_url) = strip(Last(lines))
        /\ \A j \in 1..Len(chapters) : chapters[j].index >= initial_chapter_number

\* C20: a batch whose crawl has ended, by leaving the loop or by a fetcher
\* call ended with the decision "n", has made at most batch_size fetcher
\* calls, has set its range and has appended its checkpoint.
C20_EndedBatchIsCheckpointed ==
    pc \in {"raised", "makedirs", "write_epub"} =>
        /\ i < initial_chapter_number + batch_size
        /\ output_file_path # <<>>
        /\ Last(output_file_path) = <<initial_chapter_number, i>>
        /\ last_valid_url # None =>
               (links_file.exists /\ strip(Last(lines)) = strip(last_valid_url))

====
